---------------------------- MODULE Spec2Model ----------------------------
(***************************************************************************)
(* FacePay real-time face-recognition service.                             *)
(*                                                                         *)
(*   src/app/main.py                       websocket_endpoint              *)
(*   src/app/services/websocket_service.py WebSocketManager                *)
(*   src/app/services/face_recognition.py  FaceRecognitionService          *)
(*                                                                         *)
(* One asyncio task per websocket runs websocket_endpoint.  The manager    *)
(* keeps three dictionaries keyed by client id.  Detection and embedding   *)
(* extraction run as jobs of a ThreadPoolExecutor; the task that submitted *)
(* a job awaits it.  Embeddings are small integer vectors whose norm is an *)
(* integer, so cosine similarity is an exact rational number (floating     *)
(* point rounding is not modelled).                                        *)
(***************************************************************************)
EXTENDS Integers, Sequences, FiniteSets, TLC

(***************************************************************************)
(* Bounds of the model and constants of the program.                       *)
(***************************************************************************)
\* connections the endpoint serves in one behaviour
MaxClients == 2
\* inbound messages and direct manager calls in one behaviour
MaxMsgs == 4
\* longest candidate list handed to find_best_match on its own
MaxStored == 3
\* websocket_service.py:104  "Keep only last 10 embeddings"
CacheCapacity == 10
\* face_recognition.py:43  ThreadPoolExecutor(max_workers=4)
PoolSize == 4

\* every client id the model knows; the endpoint uses the first MaxClients
Ids == 1..(PoolSize + 1)
Clients == 1..MaxClients

(***************************************************************************)
(* Option values: Python's None and a present value.                       *)
(***************************************************************************)
None == << >>
Some(x) == << x >>

(***************************************************************************)
(* Rational numbers num/den with den > 0, for similarities and thresholds. *)
(***************************************************************************)
Rat(n, d) == [num |-> n, den |-> d]
RatGT(r, s) == r.num * s.den > s.num * r.den

\* face_recognition.py:151 and websocket_service.py:139  threshold = 0.6
DefaultThreshold == Rat(3, 5)

(***************************************************************************)
(* Embeddings: two-dimensional integer vectors with an integer norm.       *)
(***************************************************************************)
EmbA == << 3, 4 >>
EmbB == << 4, 3 >>
EmbX == << 1, 0 >>
EmbNeg == << -1, 0 >>
EmbZero == << 0, 0 >>

Dot(a, b) == a[1] * b[1] + a[2] * b[2]

\* np.linalg.norm, exact on the vectors above
ISqrt(n) == CHOOSE r \in 0..n : r * r <= n /\ (r + 1) * (r + 1) > n
Norm(v) == ISqrt(Dot(v, v))

\* FaceRecognitionService.calculate_similarity
calculate_similarity(embedding1, embedding2) ==
    LET norm1 == Norm(embedding1)
        norm2 == Norm(embedding2)
    IN  IF norm1 = 0 \/ norm2 = 0
        THEN Rat(0, 1)
        ELSE Rat(Dot(embedding1, embedding2), norm1 * norm2)

\* the loop of find_best_match from candidate i (1-based here) onwards;
\* best is [similarity, index] with the 0-based index the code returns
RECURSIVE BestMatchLoop(_, _, _, _, _)
BestMatchLoop(query, stored, threshold, i, best) ==
    IF i > Len(stored)
    THEN best
    ELSE LET similarity == calculate_similarity(query, stored[i])
         IN  IF RatGT(similarity, threshold) /\ RatGT(similarity, best.similarity)
             THEN BestMatchLoop(query, stored, threshold, i + 1,
                                [similarity |-> similarity, index |-> Some(i - 1)])
             ELSE BestMatchLoop(query, stored, threshold, i + 1, best)

\* a faulty find_best_match that ignores the threshold: the candidate with
\* the greatest similarity is returned however small it is
find_best_match_unthresholded(query, stored, threshold) ==
    IF stored = << >>
    THEN None
    ELSE BestMatchLoop(query, stored, Rat(-2, 1), 1,
                       [similarity |-> Rat(-2, 1), index |-> None]).index

\* FaceRecognitionService.find_best_match
find_best_match(query, stored, threshold) ==
    IF stored = << >>
    THEN None
    ELSE LET best == BestMatchLoop(query, stored, threshold, 1,
                                   [similarity |-> Rat(-1, 1), index |-> None])
         IN  IF RatGT(best.similarity, threshold) THEN best.index ELSE None


(***************************************************************************)
(* Dictionaries whose key set changes: d[k] = v, del d[k], d.get(k, dflt). *)
(***************************************************************************)
Put(d, k, v) == [x \in (DOMAIN d) \cup {k} |-> IF x = k THEN v ELSE d[x]]
Del(d, k) == [x \in (DOMAIN d) \ {k} |-> d[x]]
Get(d, k, dflt) == IF k \in DOMAIN d THEN d[k] ELSE dflt

\* list[-n:] for n >= 1
LastN(s, n) == IF Len(s) <= n THEN s ELSE SubSeq(s, Len(s) - n + 1, Len(s))

(***************************************************************************)
(* Frames.  frame_data is an index into FrameTable, which says what        *)
(* base64.b64decode / cv2.imdecode make of the payload and what the        *)
(* detector and the embedder (external capabilities) return for the image. *)
(***************************************************************************)
Face(out, e) == [out |-> out, embedding |-> e]

\* CacheCapacity + 1 faces, each with an embedding, alternately EmbA and EmbB
ManyFaces == [i \in 1..(CacheCapacity + 1) |->
                 Face("embedding", IF i % 2 = 1 THEN EmbA ELSE EmbB)]

FrameTable ==
    << [decode |-> "b64error",  detect |-> "ok",    faces |-> << >>],
       [decode |-> "not_image", detect |-> "ok",    faces |-> << >>],
       [decode |-> "image",     detect |-> "raise", faces |-> << >>],
       [decode |-> "image",     detect |-> "ok",    faces |-> << >>],
       [decode |-> "image",     detect |-> "ok",
        faces |-> << Face("raise", EmbZero), Face("embedding", EmbB),
                     Face("none", EmbZero) >>],
       [decode |-> "image",     detect |-> "ok",    faces |-> ManyFaces] >>

FrameData == 1..Len(FrameTable)
Decodable(f) == FrameTable[f].decode = "image"

(***************************************************************************)
(* Inbound text frames.  json: the text parses; has_type / has_field: the  *)
(* object has a "type" key / the key its type requires.                    *)
(***************************************************************************)
InMsg(json, has_type, type, has_field, f, en, q) ==
    [json |-> json, has_type |-> has_type, type |-> type, has_field |-> has_field,
     frame_data |-> f, enabled |-> en, embedding |-> q]

VideoFrame(f) == InMsg(TRUE, TRUE, "video_frame", TRUE, f, FALSE, EmbZero)
ToggleMsg(en) == InMsg(TRUE, TRUE, "toggle_face_detection", TRUE, 1, en, EmbZero)
MatchMsg(q) == InMsg(TRUE, TRUE, "match_face", TRUE, 1, FALSE, q)
ClearMsg == InMsg(TRUE, TRUE, "clear_face_cache", TRUE, 1, FALSE, EmbZero)
UnknownMsg == InMsg(TRUE, TRUE, "ping", TRUE, 1, FALSE, EmbZero)
NotJson == InMsg(FALSE, FALSE, "", FALSE, 1, FALSE, EmbZero)
NoType == InMsg(TRUE, FALSE, "", FALSE, 1, FALSE, EmbZero)
MissingField(type) == InMsg(TRUE, TRUE, type, FALSE, 1, FALSE, EmbZero)
NoMsg == InMsg(FALSE, FALSE, "none", FALSE, 1, FALSE, EmbZero)

\* the embeddings clients ask to match: one close to the embeddings that
\* frames produce, one opposed to them
Queries == {EmbA, EmbNeg}
NeedsField == {"video_frame", "toggle_face_detection", "match_face"}

VideoFrames == {VideoFrame(f) : f \in FrameData}
\* text that raises in json.loads or in a message[...] lookup of the endpoint
RaisingMsgs == {NotJson, NoType} \cup {MissingField(t) : t \in NeedsField}
Malformed(m) == m \in RaisingMsgs \/ m = UnknownMsg

(***************************************************************************)
(* Outbound messages, one record shape for all types.                      *)
(***************************************************************************)
OutMsg(type, id, en, nfaces, nemb, found, idx, conf) ==
    [type |-> type, client_id |-> id, enabled |-> en, faces_detected |-> nfaces,
     embeddings_count |-> nemb, match_found |-> found, match_index |-> idx,
     confidence |-> conf]

Established(c) == OutMsg("connection_established", c, FALSE, 0, 0, FALSE, None, Rat(0, 1))
Toggled(en) == OutMsg("face_detection_toggled", 0, en, 0, 0, FALSE, None, Rat(0, 1))
CacheCleared == OutMsg("face_cache_cleared", 0, FALSE, 0, 0, FALSE, None, Rat(0, 1))
DetectionResult(nfaces, nemb) ==
    OutMsg("face_detection_result", 0, FALSE, nfaces, nemb, FALSE, None, Rat(0, 1))
MatchFound(i, conf) == OutMsg("face_match_result", 0, FALSE, 0, 0, TRUE, Some(i), conf)
NoMatch == OutMsg("face_match_result", 0, FALSE, 0, 0, FALSE, None, Rat(0, 1))
ErrorMsg == OutMsg("error", 0, FALSE, 0, 0, FALSE, None, Rat(0, 1))

(***************************************************************************)
(* State.                                                                  *)
(***************************************************************************)
VARIABLES
    active_connections,      \* WebSocketManager: ids with a websocket handle
    face_detection_enabled,  \* WebSocketManager: id -> bool, for some ids
    face_embeddings_cache,   \* WebSocketManager: id -> list, for some ids
    executor_running,        \* ids whose job occupies a worker thread
    executor_queue,          \* ids whose job waits for a worker thread
    transport,               \* id -> "open" | "closed": the peer's side of the socket
    pc,                      \* id -> where the endpoint task of the id stands
    job,                     \* id -> locals of the frame being processed
    exc,                     \* id -> exception that ended the receive loop
    cleared,                 \* id -> "no", or what the cache held when the last
                             \*       text frame received on the id cleared it:
                             \*       "empty" or "populated"
    n_msgs,                  \* text frames received and direct manager calls
    event,                   \* what the latest step consumed: a text frame
                             \* received by a client, or a direct manager call
    wire,                    \* messages the latest step delivered, in order
    first_out,               \* id -> type of the first message delivered to it
    appended,                \* id -> embeddings appended since connect / clear
    fbm                      \* a call of find_best_match on its own

mgr_vars == << active_connections, face_detection_enabled, face_embeddings_cache >>
pool_vars == << executor_running, executor_queue >>
vars == << active_connections, face_detection_enabled, face_embeddings_cache,
           executor_running, executor_queue, transport, pc, job, exc, cleared,
           n_msgs, event, wire, first_out, appended, fbm >>

NoJob == [image |-> 0, i |-> 0, embeddings |-> << >>]
NoCall == [pc |-> "none", query |-> EmbZero, stored |-> << >>,
           threshold |-> DefaultThreshold, result |-> None]
\* the latest step received nothing
NoEvent == [kind |-> "none", client |-> 0, msg |-> NoMsg, cleared |-> "no"]
\* client c received m; cleared[c] as it stood before
Received(c, m) == [kind |-> "receive", client |-> c, msg |-> m, cleared |-> cleared[c]]
\* other code of the process called a manager method for the id c
Called(c, m) == [kind |-> "call", client |-> c, msg |-> m, cleared |-> "no"]

\* frames in flight: the task awaits a job of the executor
Working == {"detect", "embed"}

ServiceInit ==
    /\ active_connections = {}
    /\ face_detection_enabled = << >>
    /\ face_embeddings_cache = << >>
    /\ executor_running = {}
    /\ executor_queue = << >>
    /\ transport = [c \in Ids |-> "open"]
    /\ pc = [c \in Ids |-> "start"]
    /\ job = [c \in Ids |-> NoJob]
    /\ exc = [c \in Ids |-> "none"]
    /\ cleared = [c \in Ids |-> "no"]
    /\ n_msgs = 0
    /\ event = NoEvent
    /\ wire = << >>
    /\ first_out = [c \in Ids |-> "none"]
    /\ appended = [c \in Ids |-> << >>]

Init == ServiceInit /\ fbm = NoCall

(***************************************************************************)
(* WebSocketManager.  A method's sends are the messages a step delivers.   *)
(***************************************************************************)
\* the sends of WebSocketManager.broadcast_message to the ids in todo, in
\* ascending order
RECURSIVE BroadcastTo(_, _, _)
BroadcastTo(w, message, todo) ==
    IF todo = {}
    THEN w
    ELSE LET d == CHOOSE x \in todo : \A y \in todo : x <= y
         IN  BroadcastTo(IF transport[d] = "open"
                         THEN Append(w, [to |-> d, msg |-> message])
                         ELSE w,
                         message, todo \ {d})

\* a faulty send: WebSocketManager.broadcast_message (websocket_service.py:61-64,
\* which no handler calls) used where send_personal_message belongs
broadcast_message(w, active, message, client_id) == BroadcastTo(w, message, active)

\* WebSocketManager.send_personal_message, appending to the messages w the
\* step has delivered so far; send_text raises on a closed transport and the
\* exception is logged, not raised
send_personal_message(w, active, message, client_id) ==
    IF client_id \in active /\ transport[client_id] = "open"
    THEN Append(w, [to |-> client_id, msg |-> message])
    ELSE w

\* the step delivers the messages w
Delivers(w) ==
    /\ wire' = w
    /\ first_out' = [c \in Ids |->
          IF first_out[c] = "none" /\ \E k \in 1..Len(w) : w[k].to = c
          THEN w[CHOOSE k \in 1..Len(w) :
                     w[k].to = c /\ \A j \in 1..(k - 1) : w[j].to # c].msg.type
          ELSE first_out[c]]

\* a faulty connect that registers the client and sends no greeting
connect_no_greeting(client_id) ==
    /\ active_connections' = active_connections \cup {client_id}
    /\ face_detection_enabled' = Put(face_detection_enabled, client_id, FALSE)
    /\ face_embeddings_cache' = Put(face_embeddings_cache, client_id, << >>)
    /\ appended' = [appended EXCEPT ![client_id] = << >>]
    /\ Delivers(<< >>)

\* a faulty connect that registers the client with detection enabled
connect_enabled(client_id) ==
    /\ active_connections' = active_connections \cup {client_id}
    /\ face_detection_enabled' = Put(face_detection_enabled, client_id, TRUE)
    /\ face_embeddings_cache' = Put(face_embeddings_cache, client_id, << >>)
    /\ appended' = [appended EXCEPT ![client_id] = << >>]
    /\ Delivers(send_personal_message(<< >>, active_connections \cup {client_id},
                                      Established(client_id), client_id))

\* WebSocketManager.connect, after websocket.accept()
connect(client_id) ==
    /\ active_connections' = active_connections \cup {client_id}
    /\ face_detection_enabled' = Put(face_detection_enabled, client_id, FALSE)
    /\ face_embeddings_cache' = Put(face_embeddings_cache, client_id, << >>)
    /\ appended' = [appended EXCEPT ![client_id] = << >>]
    /\ Delivers(send_personal_message(<< >>, active_connections \cup {client_id},
                                      Established(client_id), client_id))

\* a faulty disconnect that forgets the detection flag of the client
disconnect_keeps_flag(client_id) ==
    /\ active_connections' = active_connections \ {client_id}
    /\ face_embeddings_cache' = Del(face_embeddings_cache, client_id)
    /\ appended' = [appended EXCEPT ![client_id] = << >>]
    /\ UNCHANGED face_detection_enabled

\* a faulty disconnect that forgets the embeddings cache of the client
disconnect_keeps_cache(client_id) ==
    /\ active_connections' = active_connections \ {client_id}
    /\ face_detection_enabled' = Del(face_detection_enabled, client_id)
    /\ UNCHANGED << face_embeddings_cache, appended >>

\* WebSocketManager.disconnect
disconnect(client_id) ==
    /\ active_connections' = active_connections \ {client_id}
    /\ face_detection_enabled' = Del(face_detection_enabled, client_id)
    /\ face_embeddings_cache' = Del(face_embeddings_cache, client_id)
    /\ appended' = [appended EXCEPT ![client_id] = << >>]

\* a faulty toggle_face_detection that acknowledges the request and leaves
\* the flag as it was
toggle_face_detection_unapplied(client_id, enabled) ==
    /\ Delivers(send_personal_message(<< >>, active_connections, Toggled(enabled),
                                      client_id))
    /\ UNCHANGED << mgr_vars, appended >>

\* WebSocketManager.toggle_face_detection
toggle_face_detection(client_id, enabled) ==
    /\ face_detection_enabled' = Put(face_detection_enabled, client_id, enabled)
    /\ Delivers(send_personal_message(<< >>, active_connections, Toggled(enabled),
                                      client_id))
    /\ UNCHANGED << active_connections, face_embeddings_cache, appended >>

\* a faulty clear_face_cache that confirms and keeps the cache
clear_face_cache_keeps(client_id) ==
    /\ Delivers(send_personal_message(<< >>, active_connections, CacheCleared,
                                      client_id))
    /\ UNCHANGED << mgr_vars, appended >>

\* WebSocketManager.clear_face_cache
clear_face_cache(client_id) ==
    /\ face_embeddings_cache' = Put(face_embeddings_cache, client_id, << >>)
    /\ appended' = [appended EXCEPT ![client_id] = << >>]
    /\ Delivers(send_personal_message(<< >>, active_connections, CacheCleared,
                                      client_id))
    /\ UNCHANGED << active_connections, face_detection_enabled >>

\* the embeddings of every cache, in ascending order of the ids in todo
RECURSIVE AllCached(_)
AllCached(todo) ==
    IF todo = {}
    THEN << >>
    ELSE LET d == CHOOSE x \in todo : \A y \in todo : x <= y
         IN  face_embeddings_cache[d] \o AllCached(todo \ {d})

\* the face_match_result that match_face sends for a query and a cache
MatchReply(query, stored) ==
    IF stored = << >>
    THEN NoMatch
    ELSE LET best_match_index == find_best_match(query, stored, DefaultThreshold)
         IN  IF best_match_index # None
             THEN MatchFound(best_match_index[1],
                             calculate_similarity(query, stored[best_match_index[1] + 1]))
             ELSE NoMatch

\* a faulty match_face that searches the embeddings of every connection
match_face_any_cache(client_id, query_embedding) ==
    /\ Delivers(send_personal_message(<< >>, active_connections,
                    MatchReply(query_embedding,
                               AllCached(DOMAIN face_embeddings_cache)),
                    client_id))
    /\ UNCHANGED << mgr_vars, appended >>

\* a faulty match_face that runs find_best_match as a job of the executor
\* and awaits it: the handler completes only when a worker is free
match_face_in_executor(client_id, query_embedding) ==
    /\ Cardinality(executor_running) < PoolSize
    /\ Delivers(send_personal_message(<< >>, active_connections,
                    MatchReply(query_embedding,
                               Get(face_embeddings_cache, client_id, << >>)),
                    client_id))
    /\ UNCHANGED << mgr_vars, appended >>

\* WebSocketManager.match_face
match_face(client_id, query_embedding) ==
    /\ Delivers(send_personal_message(<< >>, active_connections,
                    MatchReply(query_embedding,
                               Get(face_embeddings_cache, client_id, << >>)),
                    client_id))
    /\ UNCHANGED << mgr_vars, appended >>

(***************************************************************************)
(* face_service.executor: ThreadPoolExecutor(max_workers=4).  Each task    *)
(* has at most one job at a time, so a job is named by its client id.      *)
(***************************************************************************)
\* loop.run_in_executor: a free worker takes the job, else it is queued
Submit(running, queue, c) ==
    IF Cardinality(running) < PoolSize
    THEN [running |-> running \cup {c}, queue |-> queue]
    ELSE [running |-> running, queue |-> Append(queue, c)]

\* the worker that ran c's job takes the oldest queued job, if any
Release(running, queue, c) ==
    IF queue = << >>
    THEN [running |-> running \ {c}, queue |-> queue]
    ELSE [running |-> (running \ {c}) \cup {Head(queue)}, queue |-> Tail(queue)]

\* c's job is done and c's task submits its next job at once
Resubmit(c) ==
    LET freed == Release(executor_running, executor_queue, c)
    IN  Submit(freed.running, freed.queue, c)

Executor(p) == executor_running' = p.running /\ executor_queue' = p.queue

(***************************************************************************)
(* WebSocketManager.process_video_frame and                                *)
(* FaceRecognitionService.process_image_async, one action per await.       *)
(***************************************************************************)
\* a faulty test of the flag: detection runs whatever the flag says
DetectionAlways(client_id) == TRUE

\* websocket_service.py:82  self.face_detection_enabled.get(client_id, False)
DetectionWanted(client_id) == Get(face_detection_enabled, client_id, FALSE)

\* a faulty decode failure path that drops the frame without a message
DecodeFailureSilent(client_id) == << >>

\* websocket_service.py:74-79 and 107-112: the messages sent for a frame that
\* does not decode
DecodeFailure(client_id) ==
    send_personal_message(<< >>, active_connections, ErrorMsg, client_id)

\* a faulty eviction, cache[:10]: the newest embeddings are dropped
EvictNewest(cache) ==
    IF Len(cache) > CacheCapacity THEN SubSeq(cache, 1, CacheCapacity) ELSE cache

\* websocket_service.py:104-105
Evict(cache) ==
    IF Len(cache) > CacheCapacity THEN LastN(cache, CacheCapacity) ELSE cache

\* websocket_service.py:68-83: decode, test the flag, dispatch detection
process_video_frame(client_id, frame_data) ==
    IF ~Decodable(frame_data)
    THEN /\ Delivers(DecodeFailure(client_id))
         /\ UNCHANGED << mgr_vars, pool_vars, appended, pc, job >>
    ELSE IF DetectionWanted(client_id)
    THEN /\ Executor(Submit(executor_running, executor_queue, client_id))
         /\ pc' = [pc EXCEPT ![client_id] = "detect"]
         /\ job' = [job EXCEPT ![client_id] =
                       [image |-> frame_data, i |-> 0, embeddings |-> << >>]]
         /\ Delivers(<< >>)
         /\ UNCHANGED << mgr_vars, appended >>
    ELSE /\ Delivers(<< >>)
         /\ UNCHANGED << mgr_vars, pool_vars, appended, pc, job >>

\* a faulty result step that reports a frame only when it shows a face
SendResultIfFaces(c, nfaces, embeddings) ==
    /\ Delivers(IF nfaces > 0
                THEN send_personal_message(<< >>, active_connections,
                         DetectionResult(nfaces, Len(embeddings)), c)
                ELSE << >>)
    /\ pc' = [pc EXCEPT ![c] = "store"]
    /\ job' = [job EXCEPT ![c].embeddings = embeddings]
    /\ Executor(Release(executor_running, executor_queue, c))

\* websocket_service.py:86-98: the result is sent; the task resumes at :101
SendResult(c, nfaces, embeddings) ==
    /\ Delivers(send_personal_message(<< >>, active_connections,
                    DetectionResult(nfaces, Len(embeddings)), c))
    /\ pc' = [pc EXCEPT ![c] = "store"]
    /\ job' = [job EXCEPT ![c].embeddings = embeddings]
    /\ Executor(Release(executor_running, executor_queue, c))

\* face_recognition.py:122: _detect_faces_sync returned or raised
DetectDone(c) ==
    /\ pc[c] = "detect"
    /\ c \in executor_running
    /\ LET frame == FrameTable[job[c].image]
       IN  IF frame.detect = "raise"
           THEN \* caught at websocket_service.py:107
                /\ Delivers(send_personal_message(<< >>, active_connections,
                                                  ErrorMsg, c))
                /\ pc' = [pc EXCEPT ![c] = "receive"]
                /\ job' = [job EXCEPT ![c] = NoJob]
                /\ Executor(Release(executor_running, executor_queue, c))
           ELSE IF frame.faces = << >>
           THEN SendResult(c, 0, << >>)
           ELSE /\ pc' = [pc EXCEPT ![c] = "embed"]
                /\ job' = [job EXCEPT ![c].i = 1]
                /\ Executor(Resubmit(c))
                /\ Delivers(<< >>)
    /\ event' = NoEvent
    /\ UNCHANGED << mgr_vars, appended, transport, exc, cleared, n_msgs, fbm >>

\* a faulty embedding step, _extract_embedding_sync without its try/except:
\* an embedder failure propagates to the except clause of process_video_frame
\* and the frame ends with an error
EmbedDoneRaises(c) ==
    /\ pc[c] = "embed"
    /\ c \in executor_running
    /\ LET faces == FrameTable[job[c].image].faces
           face == faces[job[c].i]
           embeddings == IF face.out = "embedding"
                         THEN Append(job[c].embeddings, face.embedding)
                         ELSE job[c].embeddings
       IN  IF face.out = "raise"
           THEN /\ Delivers(send_personal_message(<< >>, active_connections,
                                                  ErrorMsg, c))
                /\ pc' = [pc EXCEPT ![c] = "receive"]
                /\ job' = [job EXCEPT ![c] = NoJob]
                /\ Executor(Release(executor_running, executor_queue, c))
           ELSE IF job[c].i < Len(faces)
           THEN /\ job' = [job EXCEPT ![c].i = @ + 1, ![c].embeddings = embeddings]
                /\ Executor(Resubmit(c))
                /\ Delivers(<< >>)
                /\ UNCHANGED pc
           ELSE SendResult(c, Len(faces), embeddings)
    /\ event' = NoEvent
    /\ UNCHANGED << mgr_vars, appended, transport, exc, cleared, n_msgs, fbm >>

\* face_recognition.py:127-130: _extract_embedding_sync returned an embedding
\* or None (it returns None when it catches an exception, :115-117)
EmbedDone(c) ==
    /\ pc[c] = "embed"
    /\ c \in executor_running
    /\ LET faces == FrameTable[job[c].image].faces
           face == faces[job[c].i]
           embeddings == IF face.out = "embedding"
                         THEN Append(job[c].embeddings, face.embedding)
                         ELSE job[c].embeddings
       IN  IF job[c].i < Len(faces)
           THEN /\ job' = [job EXCEPT ![c].i = @ + 1, ![c].embeddings = embeddings]
                /\ Executor(Resubmit(c))
                /\ Delivers(<< >>)
                /\ UNCHANGED pc
           ELSE SendResult(c, Len(faces), embeddings)
    /\ event' = NoEvent
    /\ UNCHANGED << mgr_vars, appended, transport, exc, cleared, n_msgs, fbm >>

\* a faulty store, setdefault(client_id, []).extend(...): a missing cache
\* entry is created
StoreEmbeddingsSetdefault(client_id, embeddings) ==
    /\ face_embeddings_cache' =
           Put(face_embeddings_cache, client_id,
               Evict(Get(face_embeddings_cache, client_id, << >>) \o embeddings))
    /\ appended' = [appended EXCEPT ![client_id] = @ \o embeddings]
    /\ Delivers(<< >>)
    /\ UNCHANGED << active_connections, face_detection_enabled >>

\* websocket_service.py:101-105, and :107-112 when the cache entry is gone
StoreEmbeddings(client_id, embeddings) ==
    IF client_id \in DOMAIN face_embeddings_cache
    THEN /\ face_embeddings_cache' =
                Put(face_embeddings_cache, client_id,
                    Evict(face_embeddings_cache[client_id] \o embeddings))
         /\ appended' = [appended EXCEPT ![client_id] = @ \o embeddings]
         /\ Delivers(<< >>)
         /\ UNCHANGED << active_connections, face_detection_enabled >>
    ELSE \* KeyError, caught at :107
         /\ Delivers(send_personal_message(<< >>, active_connections, ErrorMsg,
                                           client_id))
         /\ UNCHANGED << mgr_vars, appended >>

\* websocket_service.py:101: the task resumes after the result was sent
Store(c) ==
    /\ pc[c] = "store"
    /\ IF job[c].embeddings # << >>
       THEN StoreEmbeddings(c, job[c].embeddings)
       ELSE Delivers(<< >>) /\ UNCHANGED << mgr_vars, appended >>
    /\ pc' = [pc EXCEPT ![c] = "receive"]
    /\ job' = [job EXCEPT ![c] = NoJob]
    /\ event' = NoEvent
    /\ UNCHANGED << pool_vars, transport, exc, cleared, n_msgs, fbm >>

(***************************************************************************)
(* websocket_endpoint (main.py:64-88), one task per client.                *)
(***************************************************************************)
\* main.py:67-68: uuid4 gives an id never used before; accept and register
Connect(c) ==
    /\ pc[c] = "start"
    /\ pc' = [pc EXCEPT ![c] = "receive"]
    /\ connect(c)
    /\ event' = NoEvent
    /\ UNCHANGED << pool_vars, transport, job, exc, cleared, n_msgs, fbm >>

\* the peer closes its side of the websocket
ClientClose(c) ==
    /\ pc[c] # "start"
    /\ transport[c] = "open"
    /\ transport' = [transport EXCEPT ![c] = "closed"]
    /\ event' = NoEvent
    /\ Delivers(<< >>)
    /\ UNCHANGED << mgr_vars, pool_vars, pc, job, exc, cleared, n_msgs,
                    appended, fbm >>

\* a faulty receive loop that hands each frame to a task of its own
\* (asyncio.create_task) and reads on while the frame is processed
ReceptiveDuringFrame(c) == pc[c] \notin {"start", "ended"}

\* main.py:72: the task waits in receive_text
Receptive(c) == pc[c] = "receive"

\* main.py:72: receive_text returns the text frame m
Receives(c, m) ==
    /\ Receptive(c)
    /\ transport[c] = "open"
    /\ n_msgs < MaxMsgs
    /\ n_msgs' = n_msgs + 1
    /\ event' = Received(c, m)
    /\ cleared' = [cleared EXCEPT ![c] =
                       IF m # ClearMsg THEN "no"
                       ELSE IF Get(face_embeddings_cache, c, << >>) = << >>
                       THEN "empty" ELSE "populated"]
    /\ UNCHANGED << transport, fbm >>

\* a faulty end of the loop: only the WebSocketDisconnect handler
\* unregisters the client, the handler of other exceptions just logs
LoopEndsCleanupOnCloseOnly(c, e) ==
    /\ IF e = "WebSocketDisconnect"
       THEN disconnect(c)
       ELSE UNCHANGED << mgr_vars, appended >>
    /\ Delivers(<< >>)
    /\ pc' = [pc EXCEPT ![c] = "ended"]
    /\ exc' = [exc EXCEPT ![c] = e]
    /\ UNCHANGED << pool_vars, job >>

\* main.py:84-88: both handlers unregister the client; the loop has ended
LoopEnds(c, e) ==
    /\ disconnect(c)
    /\ Delivers(<< >>)
    /\ pc' = [pc EXCEPT ![c] = "ended"]
    /\ exc' = [exc EXCEPT ![c] = e]
    /\ UNCHANGED << pool_vars, job >>

\* main.py:75-76
RecvVideoFrame(c, f) ==
    /\ Receives(c, VideoFrame(f))
    /\ process_video_frame(c, f)
    /\ UNCHANGED exc

\* main.py:77-78
RecvToggle(c, en) ==
    /\ Receives(c, ToggleMsg(en))
    /\ toggle_face_detection(c, en)
    /\ UNCHANGED << pool_vars, pc, job, exc >>

\* main.py:79-80
RecvMatch(c, q) ==
    /\ Receives(c, MatchMsg(q))
    /\ match_face(c, q)
    /\ UNCHANGED << pool_vars, pc, job, exc >>

\* main.py:81-82
RecvClear(c) ==
    /\ Receives(c, ClearMsg)
    /\ clear_face_cache(c)
    /\ UNCHANGED << pool_vars, pc, job, exc >>

\* main.py:75-82: no branch of the if/elif chain matches the type
RecvUnknown(c) ==
    /\ Receives(c, UnknownMsg)
    /\ Delivers(<< >>)
    /\ UNCHANGED << mgr_vars, appended, pool_vars, pc, job, exc >>

\* main.py:73-80 and :86-88: json.loads raises JSONDecodeError, or
\* message["type"], message["frame_data"], message["enabled"],
\* message["embedding"] raises KeyError
RecvRaising(c, m) ==
    /\ Receives(c, m)
    /\ LoopEnds(c, "Exception")

\* main.py:72 and :84-85: receive_text raises WebSocketDisconnect
RecvDisconnect(c) ==
    /\ Receptive(c)
    /\ transport[c] = "closed"
    /\ LoopEnds(c, "WebSocketDisconnect")
    /\ event' = NoEvent
    /\ UNCHANGED << transport, cleared, n_msgs, fbm >>

Next ==
    \E c \in Clients :
        \/ Connect(c)
        \/ ClientClose(c)
        \/ \E f \in FrameData : RecvVideoFrame(c, f)
        \/ \E en \in BOOLEAN : RecvToggle(c, en)
        \/ \E q \in Queries : RecvMatch(c, q)
        \/ RecvClear(c)
        \/ RecvUnknown(c)
        \/ \E m \in RaisingMsgs : RecvRaising(c, m)
        \/ RecvDisconnect(c)
        \/ DetectDone(c)
        \/ EmbedDone(c)
        \/ Store(c)

Spec == Init /\ [][Next]_vars

\* The executor runs every job it has taken and each job returns, and the
\* event loop resumes every task that is ready.
Fairness ==
    \A c \in Clients :
        WF_vars(DetectDone(c)) /\ WF_vars(EmbedDone(c)) /\ WF_vars(Store(c))

SpecLive == Spec /\ Fairness

(***************************************************************************)
(* The manager on its own.  It is a module-level singleton                 *)
(* (websocket_service.py:176): any task of the process may call its        *)
(* methods with the id of a client that has connected, in any order and    *)
(* while a frame of that id is being processed.  Here pc[c] = "receive"    *)
(* says that no process_video_frame call for c is in progress.             *)
(***************************************************************************)
DisconnectCall == InMsg(TRUE, TRUE, "disconnect", TRUE, 1, FALSE, EmbZero)

\* a call for any id, whether it has connected or not
CallsAny(c, m) ==
    /\ n_msgs < MaxMsgs
    /\ n_msgs' = n_msgs + 1
    /\ event' = Called(c, m)
    /\ UNCHANGED << transport, exc, cleared, fbm >>

Calls(c, m) ==
    /\ pc[c] # "start"
    /\ CallsAny(c, m)

CallDisconnect(c) ==
    /\ CallsAny(c, DisconnectCall)
    /\ disconnect(c)
    /\ Delivers(<< >>)
    /\ UNCHANGED << pool_vars, pc, job >>

CallToggle(c, en) ==
    /\ Calls(c, ToggleMsg(en))
    /\ toggle_face_detection(c, en)
    /\ UNCHANGED << pool_vars, pc, job >>

CallClear(c) ==
    /\ Calls(c, ClearMsg)
    /\ clear_face_cache(c)
    /\ UNCHANGED << pool_vars, pc, job >>

CallFrame(c, f) ==
    /\ pc[c] = "receive"
    /\ Calls(c, VideoFrame(f))
    /\ process_video_frame(c, f)

NextMgr ==
    \E c \in Clients :
        \/ Connect(c)
        \/ CallDisconnect(c)
        \/ \E en \in BOOLEAN : CallToggle(c, en)
        \/ CallClear(c)
        \/ \E f \in FrameData : CallFrame(c, f)
        \/ DetectDone(c)
        \/ EmbedDone(c)
        \/ Store(c)

SpecMgr == Init /\ [][NextMgr]_vars

(***************************************************************************)
(* The endpoint with more clients than worker threads.  PoolSize + 1       *)
(* clients have connected; the first PoolSize have enabled detection and   *)
(* some of them have a frame in flight, its detection job on a worker.     *)
(***************************************************************************)
\* the frame the clients send here: an image without a face
PoolFrames == {4}
\* the clients that have enabled detection
Streamers == 1..PoolSize

\* the first k streamers have a frame in flight: client 1 an image with three
\* faces, the others an image without a face
InitPool ==
    \E k \in 0..PoolSize :
        /\ active_connections = Ids
        /\ face_detection_enabled = [c \in Ids |-> c \in Streamers]
        /\ face_embeddings_cache = [c \in Ids |-> << >>]
        /\ executor_running = 1..k
        /\ executor_queue = << >>
        /\ transport = [c \in Ids |-> "open"]
        /\ pc = [c \in Ids |-> IF c \in 1..k THEN "detect" ELSE "receive"]
        /\ job = [c \in Ids |->
                     IF c \in 1..k
                     THEN [image |-> IF c = 1 THEN 5 ELSE 4, i |-> 0,
                           embeddings |-> << >>]
                     ELSE NoJob]
        /\ exc = [c \in Ids |-> "none"]
        /\ cleared = [c \in Ids |-> "no"]
        /\ n_msgs = 0
        /\ event = NoEvent
        /\ wire = << >>
        /\ first_out = [c \in Ids |-> "connection_established"]
        /\ appended = [c \in Ids |-> << >>]
        /\ fbm = NoCall

NextPool ==
    \E c \in Ids :
        \/ \E f \in PoolFrames : RecvVideoFrame(c, f)
        \/ \E en \in BOOLEAN : RecvToggle(c, en)
        \/ \E q \in Queries : RecvMatch(c, q)
        \/ RecvClear(c)
        \/ DetectDone(c)
        \/ EmbedDone(c)
        \/ Store(c)

SpecPool == InitPool /\ [][NextPool]_vars

(***************************************************************************)
(* find_best_match on its own: one call with arguments from bounded sets.  *)
(***************************************************************************)
MatchQueries == {EmbX, EmbA, EmbZero}
Candidates == {EmbA, EmbB, EmbNeg, EmbZero}
Thresholds == {DefaultThreshold, Rat(-2, 1), Rat(-1, 1), Rat(4, 5), Rat(1, 1)}

RECURSIVE SeqsUpTo(_, _)
SeqsUpTo(S, n) ==
    IF n = 0 THEN {<< >>}
    ELSE LET shorter == SeqsUpTo(S, n - 1)
         IN  shorter \cup {Append(q, x) : q \in shorter, x \in S}

InitMatch ==
    /\ ServiceInit
    /\ fbm \in {[pc |-> "call", query |-> q, stored |-> st, threshold |-> th,
                 result |-> None] :
                    q \in MatchQueries, st \in SeqsUpTo(Candidates, MaxStored),
                    th \in Thresholds}

FindBestMatch ==
    /\ fbm.pc = "call"
    /\ fbm' = [fbm EXCEPT !.pc = "done",
                          !.result = find_best_match(fbm.query, fbm.stored,
                                                     fbm.threshold)]
    /\ UNCHANGED << mgr_vars, pool_vars, transport, pc, job, exc, cleared, n_msgs,
                    event, wire, first_out, appended >>

SpecMatch == InitMatch /\ [][FindBestMatch]_vars

(***************************************************************************)
(* Claims.                                                                 *)
(***************************************************************************)
\* the latest step was client c receiving a text frame
JustReceived(c) == event.kind = "receive" /\ event.client = c
\* the messages the latest step delivered are exactly: message to client c
OnlyReply(w, c, message) == w = << [to |-> c, msg |-> message] >>
\* a control message can be received on c now
ControlReceivable(c) ==
    /\ ENABLED RecvClear(c)
    /\ \A en \in BOOLEAN : ENABLED RecvToggle(c, en)
    /\ \A q \in Queries : ENABLED RecvMatch(c, q)

\* C1: while detection or embedding work of a frame of connection d runs, a
\* control message arriving on any connection whose peer is connected, d
\* included, can be received and handled at once.
C1_ControlNotBlockedByFrame ==
    \A d \in Clients : pc[d] \in Working =>
        \A c \in Clients :
            (pc[c] \notin {"start", "ended"} /\ transport[c] = "open"
                /\ n_msgs < MaxMsgs)
            => ControlReceivable(c)

\* C2: every cache holds at most CacheCapacity embeddings, and they are the
\* last min(CacheCapacity, n) of the n embeddings appended since the id was
\* registered or last cleared, in append order.
C2_CacheIsLastAppended ==
    \A c \in DOMAIN face_embeddings_cache :
        LET cache == face_embeddings_cache[c]
            n == Len(appended[c])
            kept == IF n < CacheCapacity THEN n ELSE CacheCapacity
        IN  /\ Len(cache) <= CacheCapacity
            /\ Len(cache) = kept
            /\ \A k \in 1..kept : cache[k] = appended[c][n - kept + k]

\* C2 witness: more than CacheCapacity embeddings were appended to a cache,
\* which holds CacheCapacity of them and dropped an embedding that differs
\* from the one now first.
C2_Witness ==
    \E c \in DOMAIN face_embeddings_cache :
        /\ Len(appended[c]) > CacheCapacity
        /\ Len(face_embeddings_cache[c]) = CacheCapacity
        /\ appended[c][1] # face_embeddings_cache[c][1]

\* C3: a malformed text frame (not JSON, no type, unknown type, a known type
\* without its field) is answered with exactly one error to its connection,
\* which stays registered with its flag and cache unchanged and keeps
\* receiving.
C3_MalformedAnsweredWithError ==
    [][\A c \in Clients :
          (event'.kind = "receive" /\ event'.client = c /\ Malformed(event'.msg))
          => /\ OnlyReply(wire', c, ErrorMsg)
             /\ mgr_vars' = mgr_vars
             /\ c \in active_connections'
             /\ pc'[c] = "receive"]_vars

\* the ids that have a handle, a flag, a cache
Keys == << active_connections, DOMAIN face_detection_enabled,
           DOMAIN face_embeddings_cache >>

\* C4: a step of frame processing for an id that is not registered delivers
\* nothing, ends no receive loop with an exception and creates no handle,
\* flag or cache for any id; and no step delivers a message to an id that
\* is registered neither before nor after it.
C4_LateWorkIsNoOp ==
    [][/\ \A c \in Clients :
             (pc[c] \in Working \cup {"store"} /\ c \notin active_connections
                 /\ (pc'[c] # pc[c] \/ job'[c] # job[c]))
             => /\ wire' = << >>
                /\ Keys' = Keys
                /\ exc' = exc
                /\ pc'[c] \in {"embed", "store", "receive"}
       /\ \A k \in 1..Len(wire') :
             wire'[k].to \in active_connections \cup active_connections']_vars

\* C4 witness: the last job of a frame with embeddings finished and the
\* result was sent while the id was unregistered (the peer is still there,
\* nothing was delivered, and no other client has taken a step).
C4_Witness ==
    \E c \in Clients :
        /\ pc[c] = "store"
        /\ job[c].embeddings # << >>
        /\ c \notin active_connections
        /\ transport[c] = "open"
        /\ event = NoEvent
        /\ wire = << >>
        /\ \A d \in Ids \ {c} : pc[d] = "start"

\* C5: toggle_face_detection or clear_face_cache for an id that is not
\* registered leaves the dictionaries unchanged: no flag and no cache exist
\* for the id afterwards.
C5_UnknownConnectionLeavesRegistry ==
    [][\A c \in Clients :
          (event'.kind \in {"receive", "call"} /\ event'.client = c
              /\ event'.msg \in {ToggleMsg(TRUE), ToggleMsg(FALSE), ClearMsg}
              /\ c \notin active_connections)
          => /\ mgr_vars' = mgr_vars
             /\ c \notin DOMAIN face_detection_enabled'
             /\ c \notin DOMAIN face_embeddings_cache']_vars

\* C6: a video_frame whose payload does not decode is answered with exactly
\* one error to its connection, dispatches no job, and leaves the cache, the
\* flag and the registration as they are.
C6_DecodeFailure ==
    [][\A c \in Clients :
          (event'.kind = "receive" /\ event'.client = c
              /\ event'.msg \in VideoFrames /\ ~Decodable(event'.msg.frame_data))
          => /\ OnlyReply(wire', c, ErrorMsg)
             /\ << executor_running, executor_queue >>' =
                    << executor_running, executor_queue >>
             /\ pc'[c] = "receive" /\ job' = job
             /\ mgr_vars' = mgr_vars
             /\ c \in active_connections']_vars

\* C6 witness: a connection with detection enabled and a populated cache
\* has just been sent the error for a frame that does not decode.
C6_Witness ==
    \E c \in Clients :
        /\ JustReceived(c)
        /\ event.msg \in VideoFrames /\ ~Decodable(event.msg.frame_data)
        /\ OnlyReply(wire, c, ErrorMsg)
        /\ c \in active_connections
        /\ face_detection_enabled[c]
        /\ face_embeddings_cache[c] # << >>

\* C7: a decodable video_frame received while the flag of its connection is
\* false delivers nothing, dispatches no job and leaves the cache unchanged.
C7_DisabledFrameIsIgnored ==
    [][\A c \in Clients :
          (event'.kind = "receive" /\ event'.client = c
              /\ event'.msg \in VideoFrames /\ Decodable(event'.msg.frame_data)
              /\ ~(c \in DOMAIN face_detection_enabled /\ face_detection_enabled[c]))
          => /\ wire' = << >>
             /\ << executor_running, executor_queue >>' =
                    << executor_running, executor_queue >>
             /\ pc'[c] = "receive" /\ job' = job
             /\ face_embeddings_cache' = face_embeddings_cache]_vars

\* C7 witness: a connection whose detection was enabled, filled the cache
\* and was disabled again has just received a decodable frame with faces.
C7_Witness ==
    \E c \in Clients :
        /\ JustReceived(c)
        /\ event.msg \in VideoFrames /\ Decodable(event.msg.frame_data)
        /\ FrameTable[event.msg.frame_data].faces # << >>
        /\ ~face_detection_enabled[c]
        /\ face_embeddings_cache[c] # << >>
        /\ wire = << >>
        /\ pc[c] = "receive"

\* C8: a match_face received right after a clear_face_cache on the same
\* connection is answered with exactly one face_match_result, match_found
\* false.
C8_MatchAfterClear ==
    \A c \in Clients :
        (JustReceived(c) /\ event.msg.type = "match_face" /\ event.msg.has_field
            /\ event.cleared # "no")
        => OnlyReply(wire, c, NoMatch)

\* C8 witness: the clear emptied a populated cache and the match_face that
\* followed was answered.
C8_Witness ==
    \E c \in Clients :
        /\ JustReceived(c) /\ event.msg.type = "match_face"
        /\ event.cleared = "populated"
        /\ wire # << >>

\* C9: the first message delivered to a connection is connection_established
\* and it carries the id of the connection.
C9_EstablishedFirst ==
    /\ \A c \in Ids : first_out[c] \in {"none", "connection_established"}
    /\ \A k \in 1..Len(wire) :
          /\ first_out[wire[k].to] # "none"
          /\ wire[k].msg.type = "connection_established"
                => wire[k].msg.client_id = wire[k].to

\* C9 witness: a connection that was greeted has just been sent a message
\* of another type.
C9_Witness ==
    \E c \in Clients : \E k \in 1..Len(wire) :
        /\ wire[k].to = c
        /\ wire[k].msg.type = "face_detection_result"
        /\ first_out[c] = "connection_established"

\* similarity of candidate i (0-based) of the call
Sim(i) == calculate_similarity(fbm.query, fbm.stored[i + 1])
\* some candidate's similarity is strictly greater than the threshold
SomeAbove == \E i \in 0..(Len(fbm.stored) - 1) : RatGT(Sim(i), fbm.threshold)

\* C10: find_best_match returns None exactly when the list is empty or no
\* similarity is strictly greater than the threshold; otherwise the index
\* of a candidate whose similarity is above the threshold and maximal.
C10_FindBestMatch ==
    fbm.pc = "done" =>
        /\ (fbm.result = None) <=> ~SomeAbove
        /\ fbm.result # None =>
              /\ fbm.result[1] \in 0..(Len(fbm.stored) - 1)
              /\ RatGT(Sim(fbm.result[1]), fbm.threshold)
              /\ \A i \in 0..(Len(fbm.stored) - 1) :
                    ~RatGT(Sim(i), Sim(fbm.result[1]))

\* the candidates (0-based) whose similarity no candidate exceeds
MaxSims == {i \in 0..(Len(fbm.stored) - 1) :
               \A j \in 0..(Len(fbm.stored) - 1) : ~RatGT(Sim(j), Sim(i))}

\* C11: when two or more candidates share the maximum similarity and it is
\* strictly greater than the threshold, find_best_match returns the smallest
\* index among them.
C11_FirstSeenWins ==
    (fbm.pc = "done" /\ Cardinality(MaxSims) >= 2
        /\ \E i \in MaxSims : RatGT(Sim(i), fbm.threshold))
    => /\ fbm.result # None
       /\ fbm.result[1] \in MaxSims
       /\ \A i \in MaxSims : fbm.result[1] <= i

\* C12: a control message received on a connection is answered, in the step
\* that receives it, with exactly one response of its own type that shows
\* the state earlier messages left (toggle: the flag is set as asked; clear:
\* the cache is emptied; match: the result for the cache as it stands), so
\* responses follow arrival order; and between control messages the flag of
\* a registered connection changes only by its toggle and its cache only by
\* its clear or the store of its own frame.
C12_ControlInArrivalOrder ==
    [][\A c \in Clients :
          /\ (event'.kind = "receive" /\ event'.client = c /\ event'.msg.has_field)
             => /\ event'.msg.type = "toggle_face_detection"
                   => /\ OnlyReply(wire', c, Toggled(event'.msg.enabled))
                      /\ face_detection_enabled'[c] = event'.msg.enabled
                      /\ face_embeddings_cache' = face_embeddings_cache
                /\ event'.msg.type = "clear_face_cache"
                   => /\ OnlyReply(wire', c, CacheCleared)
                      /\ face_embeddings_cache'[c] = << >>
                      /\ face_detection_enabled' = face_detection_enabled
                /\ event'.msg.type = "match_face"
                   => /\ OnlyReply(wire', c, MatchReply(event'.msg.embedding,
                                                       face_embeddings_cache[c]))
                      /\ mgr_vars' = mgr_vars
          /\ (c \in active_connections /\ c \in active_connections')
             => /\ face_detection_enabled'[c] # face_detection_enabled[c]
                   => /\ event'.kind = "receive" /\ event'.client = c
                      /\ event'.msg = ToggleMsg(face_detection_enabled'[c])
                /\ face_embeddings_cache'[c] # face_embeddings_cache[c]
                   => \/ /\ event'.kind = "receive" /\ event'.client = c
                         /\ event'.msg = ClearMsg
                      \/ pc[c] = "store"]_vars

\* C12 witness: a connection that was enabled and filled its cache has just
\* received a request to disable detection, which was applied and answered.
C12_Witness ==
    \E c \in Clients :
        /\ JustReceived(c)
        /\ event.msg = ToggleMsg(FALSE)
        /\ OnlyReply(wire, c, Toggled(FALSE))
        /\ ~face_detection_enabled[c]
        /\ face_embeddings_cache[c] # << >>

\* C13: every message a step delivers goes to the connection the step works
\* for: the one that received the text frame, or the one whose frame the
\* step processes (or, for the greeting, the one that connects); no step
\* delivers to two connections.
C13_OnlyToOriginator ==
    [][\A k \in 1..Len(wire') :
          LET c == wire'[k].to
          IN  /\ \/ event'.kind = "receive" /\ event'.client = c
                 \/ pc[c] \in Working \cup {"store"} /\ pc'[c] # pc[c]
                 \/ pc[c] = "start" /\ pc'[c] = "receive"
                       /\ wire'[k].msg = Established(c)
              /\ \A j \in 1..Len(wire') : wire'[j].to = c]_vars

\* C13 witness: a connection has just been sent the result of its frame
\* while another connection is registered, connected and waiting.
C13_Witness ==
    \E c, d \in Clients :
        /\ c # d
        /\ wire = << [to |-> c, msg |-> DetectionResult(3, 1)] >>
        /\ d \in active_connections
        /\ transport[d] = "open"
        /\ pc[d] = "receive"

\* every worker thread of the executor runs a job
PoolSaturated == Cardinality(executor_running) = PoolSize
\* the frames in flight that occupy or wait for a worker
InFlight == executor_running \cup {executor_queue[k] : k \in 1..Len(executor_queue)}

\* C14: while every worker runs a job of other connections, a connected
\* client with no frame in flight can have any control message received at
\* once; and a control message received while every worker is busy has been
\* answered in the step that received it, its client waiting in receive_text
\* again with no job submitted.
C14_ControlWhenPoolSaturated ==
    \A c \in Ids :
        /\ (PoolSaturated /\ c \notin InFlight /\ pc[c] = "receive"
                /\ c \in active_connections /\ transport[c] = "open"
                /\ n_msgs < MaxMsgs)
           => ControlReceivable(c)
        /\ (PoolSaturated /\ JustReceived(c)
                /\ event.msg.type \in {"toggle_face_detection", "match_face",
                                       "clear_face_cache"})
           => /\ Len(wire) = 1 /\ wire[1].to = c
              /\ wire[1].msg.type \in {"face_detection_toggled",
                                       "face_match_result", "face_cache_cleared"}
              /\ pc[c] = "receive"
              /\ c \notin InFlight

\* C14 witness: all workers are busy with frames of the other clients and
\* the one client with no frame in flight has just had its match_face
\* answered.
C14_Witness ==
    \E c \in Ids :
        /\ PoolSaturated
        /\ \A d \in Ids \ {c} : pc[d] \in Working
        /\ c \notin InFlight
        /\ JustReceived(c)
        /\ event.msg.type = "match_face"
        /\ Len(wire) = 1 /\ wire[1].to = c

\* the handle, flag and cache of id d are the same before and after the step
SameEntries(d) ==
    /\ (d \in active_connections') = (d \in active_connections)
    /\ (d \in DOMAIN face_detection_enabled') = (d \in DOMAIN face_detection_enabled)
    /\ (d \in DOMAIN face_embeddings_cache') = (d \in DOMAIN face_embeddings_cache)
    /\ d \in DOMAIN face_detection_enabled
          => face_detection_enabled'[d] = face_detection_enabled[d]
    /\ d \in DOMAIN face_embeddings_cache
          => face_embeddings_cache'[d] = face_embeddings_cache[d]

\* C15: disconnect(c) leaves no handle, flag or cache for c, raises nothing,
\* sends nothing and leaves the entries of every other id as they are; for
\* an id with no entry (never registered, or already unregistered) it
\* changes nothing, so a second disconnect adds nothing to the first.
C15_DisconnectIdempotent ==
    [][\A c \in Clients :
          (event'.kind = "call" /\ event'.client = c /\ event'.msg = DisconnectCall)
          => /\ c \notin active_connections'
             /\ c \notin DOMAIN face_detection_enabled'
             /\ c \notin DOMAIN face_embeddings_cache'
             /\ \A d \in Ids \ {c} : SameEntries(d)
             /\ exc' = exc /\ pc' = pc /\ wire' = << >>
             /\ (c \notin active_connections
                   /\ c \notin DOMAIN face_detection_enabled
                   /\ c \notin DOMAIN face_embeddings_cache)
                => mgr_vars' = mgr_vars]_vars

\* C15 witness: disconnect has just been called for an id that has no entry
\* left (it was registered and unregistered before) while another id is
\* registered with a populated cache.
C15_Witness ==
    \E c, d \in Clients :
        /\ c # d
        /\ event.kind = "call" /\ event.client = c /\ event.msg = DisconnectCall
        /\ pc[c] = "receive"
        /\ n_msgs >= 2
        /\ c \notin active_connections
        /\ d \in active_connections
        /\ face_embeddings_cache[d] # << >>

\* the frame whose job of connection c has just finished, and its face
FrameOf(c) == FrameTable[job[c].image]
FaceOf(c) == FrameOf(c).faces[job[c].i]

\* C16: a step that ends a job of a frame of connection c leaves c
\* registered and its receive loop alive.  When the detector raised, the
\* cache is unchanged and the task waits in receive_text again for the next
\* message.  When the embedder raised on a face, no
\* error is sent and no embedding is added for that face, and the frame goes
\* on: to the next face, or to the result that counts every face.
C16_CapabilityFailureContained ==
    [][\A c \in Clients :
          (pc[c] \in Working /\ c \in active_connections
              /\ (pc'[c] # pc[c] \/ job'[c] # job[c]))
          => /\ c \in active_connections'
             /\ exc' = exc
             /\ pc'[c] # "ended"
             /\ (pc[c] = "detect" /\ FrameOf(c).detect = "raise")
                => /\ face_embeddings_cache' = face_embeddings_cache
                   /\ Receptive(c)'
             /\ (pc[c] = "embed" /\ FaceOf(c).out = "raise")
                => /\ \A k \in 1..Len(wire') : wire'[k].msg.type # "error"
                   /\ job'[c].embeddings = job[c].embeddings
                   /\ IF job[c].i < Len(FrameOf(c).faces)
                      THEN pc'[c] = "embed" /\ job'[c].i = job[c].i + 1
                      ELSE /\ pc'[c] = "store"
                           /\ transport[c] = "open"
                              => OnlyReply(wire', c,
                                    DetectionResult(Len(FrameOf(c).faces),
                                                    Len(job[c].embeddings)))]_vars

\* C16 witness: the embedder raised on the first face of a frame; the other
\* faces were processed, the result counts three faces and one embedding,
\* and the embedding is about to be stored.
C16_Witness ==
    \E c \in Clients :
        /\ pc[c] = "store"
        /\ FrameOf(c).faces # << >>
        /\ FrameOf(c).faces[1].out = "raise"
        /\ job[c].embeddings = << EmbB >>
        /\ OnlyReply(wire, c, DetectionResult(3, 1))
        /\ c \in active_connections

\* the messages the step delivers are exactly one face_detection_result or
\* one error, to c
OneFrameReply(w, c) ==
    /\ Len(w) = 1
    /\ w[1].to = c
    /\ w[1].msg.type \in {"face_detection_result", "error"}

\* C17: a video_frame received on a registered connection whose detection
\* is enabled is answered exactly once while the peer is connected: with
\* an error at once if it does not decode; otherwise nothing is delivered
\* until the step that ends its last job, which delivers one
\* face_detection_result or one error, and nothing after it; and under
\* fair scheduling every frame in flight reaches that step.
C17_OneReplyPerFrame ==
    /\ [][\A c \in Clients :
             /\ (event'.kind = "receive" /\ event'.client = c
                    /\ event'.msg \in VideoFrames /\ c \in active_connections
                    /\ Get(face_detection_enabled, c, FALSE))
                => IF Decodable(event'.msg.frame_data)
                   THEN wire' = << >> /\ pc'[c] = "detect"
                   ELSE OneFrameReply(wire', c) /\ pc'[c] = "receive"
             /\ (pc[c] \in Working /\ (pc'[c] # pc[c] \/ job'[c] # job[c]))
                => IF pc'[c] \in Working
                   THEN wire' = << >>
                   ELSE IF transport[c] = "open"
                   THEN OneFrameReply(wire', c)
                   ELSE wire' = << >>
             /\ (pc[c] = "store" /\ pc'[c] # pc[c])
                => wire' = << >> /\ pc'[c] = "receive"]_vars
    /\ \A c \in Clients : (pc[c] \in Working) ~> (pc[c] = "receive")

\* C17 witness: the detector raised on a frame of a connection with
\* detection enabled, and the error, the one message of that frame, has
\* just been delivered.
C17_Witness ==
    \E c \in Clients :
        /\ event = NoEvent
        /\ OnlyReply(wire, c, ErrorMsg)
        /\ pc[c] = "receive"
        /\ c \in active_connections
        /\ face_detection_enabled[c]

\* connection c is registered with detection disabled and an empty cache,
\* and no frame of it is in flight
Fresh(c) ==
    /\ c \in active_connections
    /\ c \in DOMAIN face_detection_enabled /\ ~face_detection_enabled[c]
    /\ c \in DOMAIN face_embeddings_cache /\ face_embeddings_cache[c] = << >>
    /\ pc[c] = "receive"

\* C18: the step that registers a connection leaves it with detection
\* disabled and an empty cache; and from such a state every step other than
\* the handling of toggle_face_detection with enabled = true on that
\* connection delivers no face_detection_result to it and leaves it in such
\* a state, or unregistered.
C18_NothingBeforeEnable ==
    [][\A c \in Clients :
          /\ (pc[c] = "start" /\ pc'[c] # "start") => Fresh(c)'
          /\ (Fresh(c) /\ ~(event'.kind = "receive" /\ event'.client = c
                               /\ event'.msg = ToggleMsg(TRUE)))
             => /\ \A k \in 1..Len(wire') :
                      ~(wire'[k].to = c
                           /\ wire'[k].msg.type = "face_detection_result")
                /\ Fresh(c)' \/ c \notin active_connections']_vars

\* C18 witness: the first text frame the service received is a decodable
\* frame with faces, on a connection that never enabled detection; nothing
\* was sent for it and the cache is empty.
C18_Witness ==
    \E c \in Clients :
        /\ n_msgs = 1
        /\ JustReceived(c)
        /\ event.msg = VideoFrame(5)
        /\ Fresh(c)
        /\ wire = << >>

\* the step is taken on behalf of connection c: c received a text frame,
\* connected, or a frame of c moved on
StepOf(c) ==
    \/ event'.kind = "receive" /\ event'.client = c
    \/ pc'[c] # pc[c]
    \/ job'[c] # job[c]

\* C19: a step changes the flag or the cache of a connection only when it
\* is taken on behalf of that connection, and a match_face received on a
\* connection is answered with the result of matching against the cache of
\* that connection alone.
C19_OtherConnectionsUntouched ==
    [][/\ \A b \in Clients : SameEntries(b) \/ StepOf(b)
       /\ \A a \in Clients :
             (event'.kind = "receive" /\ event'.client = a
                 /\ event'.msg.type = "match_face" /\ event'.msg.has_field)
             => /\ OnlyReply(wire', a, MatchReply(event'.msg.embedding,
                                                 face_embeddings_cache[a]))
                /\ mgr_vars' = mgr_vars]_vars

\* C19 witness: match_face on a connection with an empty cache was answered
\* with no match although the cache of another registered connection holds
\* an embedding that matches the query.
C19_Witness ==
    \E a, b \in Clients :
        /\ a # b
        /\ JustReceived(a) /\ event.msg.type = "match_face" /\ event.msg.has_field
        /\ OnlyReply(wire, a, NoMatch)
        /\ face_embeddings_cache[a] = << >>
        /\ b \in active_connections
        /\ face_embeddings_cache[b] # << >>
        /\ MatchReply(event.msg.embedding, face_embeddings_cache[b]) # NoMatch

\* C20: when a face_detection_result that counts n > 0 embeddings is
\* delivered to a connection, the cache of the connection already ends with
\* the embeddings of that frame (the last CacheCapacity of them, if there
\* are more).
C20_StoredBeforeResult ==
    \A k \in 1..Len(wire) :
        LET c == wire[k].to
            n == wire[k].msg.embeddings_count
            kept == IF n < CacheCapacity THEN n ELSE CacheCapacity
        IN  (wire[k].msg.type = "face_detection_result" /\ n > 0)
            => /\ c \in DOMAIN face_embeddings_cache
               /\ Len(face_embeddings_cache[c]) >= kept
               /\ LastN(face_embeddings_cache[c], kept) = LastN(job[c].embeddings, kept)

\* the rationals r and s are the same number
SameRat(r, s) == r.num * s.den = s.num * r.den

\* C21: a face_match_result is delivered only to a connection that has just
\* received match_face.  With match_found true its match_index is an index
\* of that connection's cache, which holds at most CacheCapacity embeddings,
\* and its confidence is the similarity of the query and the embedding at
\* that index, strictly greater than 0.6; on an empty cache match_found is
\* false.
C21_MatchResultWellFormed ==
    \A k \in 1..Len(wire) :
        LET c == wire[k].to
            m == wire[k].msg
        IN  m.type = "face_match_result"
            => /\ JustReceived(c) /\ event.msg.type = "match_face"
               /\ c \in DOMAIN face_embeddings_cache
               /\ Len(face_embeddings_cache[c]) <= CacheCapacity
               /\ face_embeddings_cache[c] = << >> => ~m.match_found
               /\ m.match_found
                  => /\ m.match_index # None
                     /\ m.match_index[1] \in 0..(Len(face_embeddings_cache[c]) - 1)
                     /\ SameRat(m.confidence,
                                calculate_similarity(event.msg.embedding,
                                    face_embeddings_cache[c][m.match_index[1] + 1]))
                     /\ RatGT(m.confidence, DefaultThreshold)

\* C21 witness: on a full cache a match was found at an index other than
\* the first.
C21_Witness ==
    \E c \in Clients :
        /\ JustReceived(c) /\ event.msg.type = "match_face"
        /\ Len(wire) = 1 /\ wire[1].to = c
        /\ wire[1].msg.match_found
        /\ wire[1].msg.match_index = Some(1)
        /\ Len(face_embeddings_cache[c]) = CacheCapacity

\* C22: the ids that have a connection handle, the ids that have a detection
\* flag and the ids that have a cache are the same set, and they are ids
\* whose endpoint task has connected and whose receive loop has not ended.
C22_TablesAgree ==
    /\ DOMAIN face_detection_enabled = active_connections
    /\ DOMAIN face_embeddings_cache = active_connections
    /\ \A c \in active_connections : pc[c] \notin {"start", "ended"}

\* C22 witness: the receive loop of one connection has ended and its entries
\* are gone, while another connection is registered with detection enabled
\* and a populated cache.
C22_Witness ==
    \E c, d \in Clients :
        /\ c # d
        /\ pc[c] = "ended"
        /\ c \notin active_connections
        /\ d \in active_connections
        /\ face_detection_enabled[d]
        /\ face_embeddings_cache[d] # << >>

\* the faces of a frame for which the embedder returns an embedding
Embeddable(frame) ==
    Cardinality({i \in 1..Len(frame.faces) : frame.faces[i].out = "embedding"})

\* C23: a connection reads a message only when no frame of it is being
\* processed; the frame it has in flight is the one it received last and is
\* not replaced until finished; a face_detection_result delivered to it
\* reports that frame; and the executor never holds two jobs of one
\* connection.
C23_OneFrameAtATime ==
    /\ [](/\ \A c \in Clients : c \in InFlight => pc[c] \in Working
          /\ \A j, k \in 1..Len(executor_queue) :
                executor_queue[j] = executor_queue[k] => j = k
          /\ \A k \in 1..Len(executor_queue) :
                executor_queue[k] \notin executor_running)
    /\ [][\A c \in Clients :
             /\ (event'.kind = "receive" /\ event'.client = c)
                => /\ pc[c] = "receive"
                   /\ pc'[c] \in Working
                      => /\ event'.msg \in VideoFrames
                         /\ job'[c].image = event'.msg.frame_data
             /\ pc[c] \in Working \cup {"store"}
                => job'[c].image \in {job[c].image, 0}
             /\ \A k \in 1..Len(wire') :
                   (wire'[k].to = c /\ wire'[k].msg.type = "face_detection_result")
                   => /\ pc[c] \in Working
                      /\ wire'[k].msg.faces_detected = Len(FrameOf(c).faces)
                      /\ wire'[k].msg.embeddings_count = Embeddable(FrameOf(c))]_vars

\* C23 witness: frames of two connections are in flight at the same time,
\* different frames at different stages.
C23_Witness ==
    \E c, d \in Clients :
        /\ pc[c] = "detect" /\ job[c].image = 6
        /\ pc[d] = "embed" /\ job[d].image = 5
        /\ {c, d} \subseteq executor_running

\* C24: a connection whose receive loop has ended, by WebSocketDisconnect or
\* by another exception, has no handle, no flag and no cache, no job in the
\* executor, and no message is delivered to it; and the loop has ended
\* exactly when an exception ended it.
C24_EndedMeansUnregistered ==
    \A c \in Clients :
        /\ (pc[c] = "ended") = (exc[c] # "none")
        /\ pc[c] = "ended"
           => /\ c \notin active_connections
              /\ c \notin DOMAIN face_detection_enabled
              /\ c \notin DOMAIN face_embeddings_cache
              /\ c \notin InFlight
              /\ job[c] = NoJob
              /\ \A k \in 1..Len(wire) : wire[k].to # c

\* C24 witness: a text frame that is not JSON has just ended the receive
\* loop of a connected client, and another loop has ended by
\* WebSocketDisconnect.
C24_Witness ==
    \E c, d \in Clients :
        /\ JustReceived(c) /\ event.msg = NotJson
        /\ pc[c] = "ended" /\ exc[c] = "Exception"
        /\ transport[c] = "open"
        /\ pc[d] = "ended" /\ exc[d] = "WebSocketDisconnect"

=============================================================================
